---- MODULE Spec2Model ----
(***************************************************************************)
(* ecsroll: rolling REPLACE / REBOOT maintenance of the EC2 instances of   *)
(* an ECS cluster (src/ecsroll.py).  The script is one sequential process; *)
(* pc is its position.  The AWS control planes (ECS, EC2, the autoscaling  *)
(* group) are the environment: their state is inst / groups / clusterArns  *)
(* and their own steps are the Env* actions.                               *)
(***************************************************************************)
EXTENDS Integers, Sequences, FiniteSets, TLC

\* ---------------------------------------------------------------- bounds
MaxN == 2          \* largest number of instances in the cluster at start
MaxTasks == 1      \* running tasks on an original instance at start
MaxRetries == 2    \* failed checks counted per wait
MaxLen == 2        \* longest snapshot given to the pure helpers

NumIds == 2 * MaxN
Ids == 1 .. NumIds
Groups == {1, 2}

\* -------------------------------------------------------- program constants
PROVIDER_PROFILE == "profile"
PROVIDER_ENV == "env"
INSTANCE_FIELDS ==
  <<"ec2InstanceId", "containerInstanceArn", "status", "runningTasksCount", "pendingTasksCount">>

\* INSTANCE_FIELDS.index(f), 1-based
index(f) == CHOOSE k \in 1 .. Len(INSTANCE_FIELDS) : INSTANCE_FIELDS[k] = f

Ec2Id(k) == <<"i", k>>
Arn(k) == <<"arn", k>>
None == <<>>

Range(s) == {s[k] : k \in 1 .. Len(s)}

RECURSIVE Orderings(_)
Orderings(S) ==
  IF S = {} THEN {<<>>}
  ELSE UNION {{<<x>> \o t : t \in Orderings(S \ {x})} : x \in S}

\* ------------------------------------------------------------ pure helpers

\* ec2InstanceId, containerInstanceArn of each row
IdPairs(rows) ==
  [k \in 1 .. Len(rows) |->
     <<rows[k][index("ec2InstanceId")], rows[k][index("containerInstanceArn")]>>]

RECURSIVE FirstNew(_, _, _, _)
FirstNew(original, replacement, current, k) ==
  IF k > Len(current) THEN None
  ELSE IF current[k] \notin Range(original) /\ current[k] \notin Range(replacement)
       THEN current[k]
       ELSE FirstNew(original, replacement, current, k + 1)

get_new_instance_IgnoringReplacements(original, replacement, current) ==
  FirstNew(IdPairs(original), <<>>, IdPairs(current), 1)

get_new_instance_ByEc2Id(original, replacement, current) ==
  LET known == {original[k][index("ec2InstanceId")] : k \in 1 .. Len(original)}
                 \cup {replacement[k][index("ec2InstanceId")] : k \in 1 .. Len(replacement)}
      RECURSIVE go(_)
      go(k) ==
        IF k > Len(current) THEN None
        ELSE IF current[k][index("ec2InstanceId")] \notin known
             THEN IdPairs(current)[k]
             ELSE go(k + 1)
  IN go(1)

get_new_instance(original, replacement, current) ==
  FirstNew(IdPairs(original), IdPairs(replacement), IdPairs(current), 1)

RECURSIVE OverflowFrom(_, _, _)
OverflowFrom(original_ec2_ids, current_instances, k) ==
  IF k > Len(current_instances) THEN <<>>
  ELSE (IF current_instances[k][index("ec2InstanceId")] \notin original_ec2_ids
        THEN <<[ec2 |-> current_instances[k][index("ec2InstanceId")],
                ecs |-> current_instances[k][index("containerInstanceArn")]]>>
        ELSE <<>>)
       \o OverflowFrom(original_ec2_ids, current_instances, k + 1)

get_overflow_instance_ids_ByPair(original_instances, current_instances) ==
  LET RECURSIVE go(_)
      go(k) ==
        IF k > Len(current_instances) THEN <<>>
        ELSE (IF IdPairs(current_instances)[k] \notin Range(IdPairs(original_instances))
              THEN <<[ec2 |-> current_instances[k][index("ec2InstanceId")],
                      ecs |-> current_instances[k][index("containerInstanceArn")]]>>
              ELSE <<>>) \o go(k + 1)
  IN go(1)

get_overflow_instance_ids(original_instances, current_instances) ==
  OverflowFrom({original_instances[k][index("ec2InstanceId")] : k \in 1 .. Len(original_instances)},
               current_instances, 1)


\* ------------------------------------------------------------------ state
VARIABLES
  pc,                    \* position of the script
  action,                \* args.action: "replace" or "reboot"
  AUTO_YES,              \* --yes
  choice,                \* yes_or_exit: the last answer read ("" before any)
  cluster_instances,     \* the original snapshot (rows in INSTANCE_FIELDS order)
  asg,                   \* the resolved autoscaling group (0 before setup)
  replacement_instances, \* do_cluster_replace: recorded [ec2, arn] pairs
  i,                     \* loop index over cluster_instances, 0-based
  new_instance,          \* do_cluster_replace: result of get_new_instance
  overflow_ids,          \* do_cluster_reboot: result of get_overflow_instance_ids
  depth,                 \* enclosing frames of a recursive expectation wait
  asking,                \* an expectation wait is inside its yes_or_exit call
  inst,                  \* environment: every instance, by number
  groups,                \* environment: MinSize/MaxSize/DesiredCapacity per group
  clusterArns,           \* environment: names of the clusters that exist
  activating,            \* environment: ACTIVE updates accepted and not yet visible
  external,              \* environment: an instance was deregistered outside the run
  wFailed,               \* history: failed checks of the current wait
  wGates,                \* history: yes_or_exit calls of the current wait
  log,                   \* history: calls and observations, in order
  pOriginal, pReplacement, pCurrent, pResult, pCalled   \* inputs/result of the pure helpers

progVars == <<pc, action, AUTO_YES, choice, cluster_instances, asg, replacement_instances,
              i, new_instance, overflow_ids, depth, asking>>
envVars == <<inst, groups, clusterArns, activating, external>>
histVars == <<wFailed, wGates, log>>
pureVars == <<pOriginal, pReplacement, pCurrent, pResult, pCalled>>
vars == <<progVars, envVars, histVars, pureVars>>

NoInstance ==
  [life |-> "none", status |-> "ACTIVE", running |-> 0, ec2ok |-> FALSE,
   agentConnected |-> FALSE, protected |-> FALSE, group |-> 0]

\* one row of get_cluster_instances, fields in INSTANCE_FIELDS order
Row(k) == <<Ec2Id(k), Arn(k), inst[k].status, inst[k].running, 0>>

\* the instance number behind an EC2 id or a container-instance ARN
Num(id) == id[2]

\* container instances the scheduler lists for the cluster
Members == {k \in Ids : inst[k].life \in {"registered", "lingering"}}
\* instances EC2 still runs
Running == {k \in Ids : inst[k].life \in {"pending", "registered", "deregistered"}}
\* instances the group counts against its desired capacity
AsgMembers(g) == {k \in Running : inst[k].group = g}

\* get_cluster_instances: the rows of the members, in whatever order the
\* scheduler lists them
get_cluster_instances ==
  {[j \in 1 .. Len(o) |-> Row(o[j])] : o \in Orderings(Members)}

\* get_autoscaling_groups: the groups of the snapshot's instances
get_autoscaling_groups(instances) ==
  {inst[k].group : k \in {n \in Running : Ec2Id(n) \in {instances[j][1] : j \in 1 .. Len(instances)}}}
    \ {0}

cluster_exists == "target" \in clusterArns

N == Len(cluster_instances)
OriginalNums == {Num(cluster_instances[j][index("ec2InstanceId")]) : j \in 1 .. N}
ReplacementNums == {Num(replacement_instances[j][1]) : j \in 1 .. Len(replacement_instances)}

ExitCode == CASE pc = "done" -> 0
              [] pc \in {"exit_abort", "exit_error"} -> 2
              [] pc = "crashed" -> 1
              [] OTHER -> -1

\* --------------------------------------------------------------- Init
Coverings == {"one", "none", "two"}

InitialInstance(k, n, covering) ==
  IF k > n THEN NoInstance
  ELSE [life |-> "registered", status |-> "ACTIVE", running |-> MaxTasks, ec2ok |-> TRUE,
        agentConnected |-> TRUE, protected |-> FALSE,
        group |-> CASE covering = "one" -> 1
                    [] covering = "none" -> 0
                    [] OTHER -> IF k = 1 THEN 1 ELSE 2]

InitialGroup(count) ==
  [MinSize |-> IF count = 0 THEN 0 ELSE count - 1, MaxSize |-> count + 1,
   DesiredCapacity |-> count]

PureIdle ==
  /\ pOriginal = <<>> /\ pReplacement = <<>> /\ pCurrent = <<>>
  /\ pResult = <<>> /\ pCalled = "none"

Init ==
  /\ pc = "setup_profile"
  /\ action \in {"replace", "reboot"}
  /\ AUTO_YES \in BOOLEAN
  /\ choice = ""
  /\ cluster_instances = <<>> /\ asg = 0 /\ replacement_instances = <<>>
  /\ i = 0 /\ new_instance = None /\ overflow_ids = <<>>
  /\ depth = 0 /\ asking = FALSE
  /\ \E n \in 0 .. MaxN, covering \in Coverings :
       /\ covering = "two" => n >= 2
       /\ clusterArns \in IF n = 0 THEN {{"other"}, {"target", "other"}} ELSE {{"target", "other"}}
       /\ inst = [k \in Ids |-> InitialInstance(k, n, covering)]
       /\ groups = [g \in Groups |->
                      InitialGroup(Cardinality({k \in 1 .. n :
                                      InitialInstance(k, n, covering).group = g}))]
  /\ activating = {} /\ external = FALSE
  /\ wFailed = 0 /\ wGates = 0 /\ log = <<>>
  /\ PureIdle


\* ------------------------------------------------------- positions (sites)
GateSites ==
  {"setup_gate_cluster", "setup_gate_asg", "init_gate", "rp_gate_perform", "rp_gate_drain",
   "rb_gate_roll", "rb_gate_perform", "rb_gate_finish"}
CountSites == {"rp_wait_up", "rp_wait_down", "rb_wait_up", "rb_wait_down"}
StatusSites == {"rb_status"}
ExpectSites == CountSites \cup StatusSites
Ec2OkSites == {"rp_ec2_ok", "rb_ok1", "rb_ok2"}
ConnectedSites == {"rp_connected", "rb_conn1", "rb_conn2"}
DrainSetSites == {"rp_drain_set", "rb_drain_set", "rb_overflow_drain_set"}
DrainChkSites == {"rp_drain_chk", "rb_drain_chk", "rb_overflow_drain_chk"}
HealthSites == Ec2OkSites \cup ConnectedSites \cup DrainChkSites
WaitSites == ExpectSites \cup HealthSites
BumpSites == {"bump_up", "rp_bump_down", "rb_bump_down"}
ProtectSites == {"rp_protect", "rb_protect", "rp_unprotect", "rb_unprotect"}
RebootSites == {"rb_reboot1", "rb_reboot2"}
EndSites == {"done", "exit_abort", "exit_error", "crashed"}

\* the statement that follows the step at `site`
NextStatement(site) ==
  CASE site = "setup_profile" -> "setup_cluster"
    [] site = "setup_gate_cluster" -> "setup_gate_asg"
    [] site = "setup_gate_asg" -> "init_gate"
    [] site = "init_gate" -> "bump_up"
    [] site = "bump_up" -> IF action = "replace" THEN "rp_gate_perform" ELSE "rb_wait_up"
    \* do_cluster_replace
    [] site = "rp_gate_perform" -> "rp_wait_up"
    [] site = "rp_wait_up" -> "rp_get_new"
    [] site = "rp_get_new" -> "rp_ec2_ok"
    [] site = "rp_ec2_ok" -> "rp_connected"
    [] site = "rp_connected" -> "rp_gate_drain"
    [] site = "rp_gate_drain" -> "rp_drain_set"
    [] site = "rp_drain_set" -> "rp_drain_chk"
    [] site = "rp_drain_chk" -> "rp_after_drain"
    [] site = "rp_after_drain" -> IF i < N - 1 THEN "rp_gate_perform" ELSE "rp_protect"
    [] site = "rp_protect" -> "rp_bump_down"
    [] site = "rp_bump_down" -> "rp_wait_down"
    [] site = "rp_wait_down" -> "rp_unprotect"
    [] site = "rp_unprotect" -> "done"
    \* do_cluster_reboot
    [] site = "rb_wait_up" -> "rb_gate_roll"
    [] site = "rb_gate_roll" -> "rb_gate_perform"
    [] site = "rb_gate_perform" -> "rb_drain_set"
    [] site = "rb_drain_set" -> "rb_drain_chk"
    [] site = "rb_drain_chk" -> "rb_reboot1"
    [] site = "rb_reboot1" -> "rb_ok1"
    [] site = "rb_ok1" -> "rb_conn1"
    [] site = "rb_conn1" -> "rb_reboot2"
    [] site = "rb_reboot2" -> "rb_ok2"
    [] site = "rb_ok2" -> "rb_conn2"
    [] site = "rb_conn2" -> "rb_activate"
    [] site = "rb_activate" -> "rb_status"
    [] site = "rb_status" -> IF i < N - 1 THEN "rb_gate_perform" ELSE "rb_gate_finish"
    [] site = "rb_gate_finish" -> "rb_overflow"
    [] site = "rb_overflow" -> "rb_overflow_drain_set"
    [] site = "rb_overflow_drain_set" -> "rb_overflow_drain_chk"
    [] site = "rb_overflow_drain_chk" -> "rb_protect"
    [] site = "rb_protect" -> "rb_bump_down"
    [] site = "rb_bump_down" -> "rb_wait_down"
    [] site = "rb_wait_down" -> "rb_unprotect"
    [] site = "rb_unprotect" -> "done"
    [] OTHER -> "crashed"

NextPc_NoConnectedWait(site) ==
  IF site = "rp_ec2_ok" THEN "rp_gate_drain" ELSE NextStatement(site)

NextPc_OneReboot(site) ==
  IF site = "rb_conn1" THEN "rb_activate" ELSE NextStatement(site)

NextPc_NoFinishGate(site) ==
  IF site = "rb_status" /\ ~(i < N - 1) THEN "rb_overflow" ELSE NextStatement(site)

\* where the script goes after the step at `site`
NextPc(site) == NextStatement(site)

\* the instance (by number) a step at `site` names in its call
Target(site) ==
  CASE site \in {"rp_ec2_ok", "rp_connected"} -> Num(new_instance[1])
    [] site \in {"rb_overflow_drain_set", "rb_overflow_drain_chk"} -> Num(overflow_ids[1].ecs)
    [] OTHER -> Num(cluster_instances[i + 1][index("ec2InstanceId")])

\* the count a wait_until_instance_count call at `site` expects
ExpectedCount(site) == IF site \in {"rp_wait_up", "rb_wait_up"} THEN N + 1 ELSE N

\* the counters of a wait are those of the wait in progress: they start
\* afresh when the script moves on, and stay as they were when it ends
Fresh == pc' # pc /\ pc' \notin EndSites \cup {"rb_status_break"}

EnterCounters ==
  /\ wFailed' = IF Fresh THEN 0 ELSE wFailed
  /\ wGates' = IF Fresh THEN 0 ELSE wGates
  /\ depth' = IF Fresh THEN 0 ELSE depth

Goto(l) == pc' = l /\ EnterCounters

\* an unhandled exception of a control-plane call or of the script itself
Crash == pc' = "crashed" /\ EnterCounters

Event(op, ids, n) == [op |-> op, ids |-> ids, n |-> n]
Logged(e) == log' = Append(log, e)
GateEvent == Event("gate", {}, 0)
LoggedGate ==
  log' = IF log # <<>> /\ log[Len(log)].op = "gate" THEN log ELSE Append(log, GateEvent)

\* ------------------------------------------------------------ yes_or_exit
\* Returns (the script goes on to `next`) or exits 2.  With AUTO_YES nothing
\* is read; otherwise the loop reads until the answer is y or n.
yes_or_exit_IgnoresNo(next) ==
  IF AUTO_YES
  THEN choice' = choice /\ pc' = next
  ELSE \E answer \in {"y", "n"} : choice' = answer /\ pc' = next

yes_or_exit(next) ==
  IF AUTO_YES
  THEN choice' = choice /\ pc' = next
  ELSE \E answer \in {"y", "n"} :
         /\ choice' = answer
         /\ pc' = IF answer # "y" THEN "exit_abort" ELSE next

\* a yes_or_exit call of the workflow itself (not one inside a wait)
Gate ==
  /\ pc \in GateSites
  /\ yes_or_exit(NextPc(pc))
  /\ EnterCounters
  /\ LoggedGate
  /\ UNCHANGED <<action, AUTO_YES, cluster_instances, asg, replacement_instances, i,
                 new_instance, overflow_ids, asking>>
  /\ UNCHANGED <<envVars, pureVars>>

\* ---------------------------------------------------------- setup_for_roll
\* lines 198-205: the profile prompt, asked only under the profile provider
setup_for_roll_session ==
  /\ pc = "setup_profile"
  /\ \E provider \in {PROVIDER_PROFILE, PROVIDER_ENV} :
       IF provider = PROVIDER_PROFILE
       THEN yes_or_exit(NextPc(pc)) /\ LoggedGate
       ELSE pc' = NextPc(pc) /\ choice' = choice /\ log' = log
  /\ EnterCounters
  /\ UNCHANGED <<action, AUTO_YES, cluster_instances, asg, replacement_instances, i,
                 new_instance, overflow_ids, asking>>
  /\ UNCHANGED <<envVars, pureVars>>

\* lines 206-220: the cluster must exist and its instances must name exactly
\* one group.  The error report joins the rows of cluster_instances, which
\* are lists: with any row at all, str.join raises before sys.exit(2).
setup_for_roll_resolve ==
  /\ pc = "setup_cluster"
  /\ \E snapshot \in get_cluster_instances :
       LET asgs == get_autoscaling_groups(snapshot) IN
       IF ~cluster_exists
       THEN /\ pc' = "exit_error"
            /\ UNCHANGED <<cluster_instances, asg>>
       ELSE IF Cardinality(asgs) # 1
       THEN /\ pc' = IF Len(snapshot) > 0 THEN "crashed" ELSE "exit_error"
            /\ cluster_instances' = snapshot
            /\ asg' = asg
       ELSE /\ pc' = "setup_gate_cluster"
            /\ cluster_instances' = snapshot
            /\ asg' = CHOOSE g \in asgs : TRUE
  /\ EnterCounters
  /\ UNCHANGED <<action, AUTO_YES, choice, replacement_instances, i, new_instance,
                 overflow_ids, asking, log>>
  /\ UNCHANGED <<envVars, pureVars>>

\* ------------------------------------------------- bump_autoscaling_group
bump_autoscaling_group_DesiredOnly(g, hop) ==
  groups' = [groups EXCEPT ![g].DesiredCapacity = groups[g].DesiredCapacity + hop]

bump_autoscaling_group(g, hop) ==
  groups' = [groups EXCEPT ![g] =
               [MinSize |-> groups[g].MinSize + hop,
                MaxSize |-> groups[g].MaxSize + hop,
                DesiredCapacity |-> groups[g].DesiredCapacity + hop]]

Hop(site) == IF site = "bump_up" THEN 1 ELSE -1

\* lines 250-251, 305, 288, 353
Bump ==
  /\ pc \in BumpSites
  /\ bump_autoscaling_group(asg, Hop(pc))
  /\ Logged([op |-> "bump", ids |-> {}, n |-> Hop(pc), read |-> groups[asg]])
  /\ Goto(NextPc(pc))
  /\ replacement_instances' = IF pc = "bump_up" THEN <<>> ELSE replacement_instances
  /\ UNCHANGED <<action, AUTO_YES, choice, cluster_instances, asg, i, new_instance,
                 overflow_ids, asking>>
  /\ UNCHANGED <<inst, clusterArns, activating, external, pureVars>>


\* any snapshot serves where only membership is read: the one in ascending
\* instance number
RECURSIVE Ascending(_)
Ascending(S) ==
  IF S = {} THEN <<>>
  ELSE LET m == CHOOSE x \in S : \A y \in S : x <= y IN <<m>> \o Ascending(S \ {m})

current_instances == [j \in 1 .. Cardinality(Members) |-> Row(Ascending(Members)[j])]

\* ------------------------------------------------ wait_until_instance_count
\* lines 114-117: one check.  A match returns through every enclosing frame
\* (the recursive call is each frame's last statement).
wait_until_instance_count_NoCheck ==
  /\ pc \in CountSites /\ ~asking
  /\ Goto(NextPc(pc))
  /\ asking' = FALSE
  /\ Logged(Event("count", {}, ExpectedCount(pc)))
  /\ UNCHANGED <<action, AUTO_YES, choice, cluster_instances, asg, replacement_instances, i,
                 new_instance, overflow_ids>>
  /\ UNCHANGED <<envVars, pureVars>>

wait_until_instance_count_NoPrompt ==
  /\ pc \in CountSites /\ ~asking
  /\ IF Len(current_instances) # ExpectedCount(pc)
     THEN /\ wFailed < MaxRetries
          /\ wFailed' = wFailed + 1
          /\ UNCHANGED <<pc, wGates, depth, log, asking>>
     ELSE /\ Goto(NextPc(pc))
          /\ asking' = FALSE
          /\ Logged(Event("count", {}, ExpectedCount(pc)))
  /\ UNCHANGED <<action, AUTO_YES, choice, cluster_instances, asg, replacement_instances, i,
                 new_instance, overflow_ids>>
  /\ UNCHANGED <<envVars, pureVars>>

wait_until_instance_count ==
  /\ pc \in CountSites /\ ~asking
  /\ IF Len(current_instances) # ExpectedCount(pc)
     THEN /\ wFailed < MaxRetries
          /\ wFailed' = wFailed + 1
          /\ asking' = TRUE
          /\ UNCHANGED <<pc, wGates, depth, log>>
     ELSE /\ Goto(NextPc(pc))
          /\ asking' = FALSE
          /\ Logged(Event("count", {}, ExpectedCount(pc)))
  /\ UNCHANGED <<action, AUTO_YES, choice, cluster_instances, asg, replacement_instances, i,
                 new_instance, overflow_ids>>
  /\ UNCHANGED <<envVars, pureVars>>

\* lines 118-121: the keep-waiting prompt, then the recursive call
wait_until_instance_count_ask ==
  /\ pc \in CountSites /\ asking
  /\ yes_or_exit(pc)
  /\ wGates' = wGates + 1
  /\ depth' = IF pc' = pc THEN depth + 1 ELSE depth
  /\ asking' = FALSE
  /\ LoggedGate
  /\ UNCHANGED <<action, AUTO_YES, cluster_instances, asg, replacement_instances, i,
                 new_instance, overflow_ids, wFailed>>
  /\ UNCHANGED <<envVars, pureVars>>

\* ----------------------------------------------- wait_until_instance_status
wait_until_instance_status_NoCheck ==
  /\ pc \in StatusSites /\ ~asking
  /\ pc' = NextPc(pc)
  /\ EnterCounters
  /\ i' = IF i < N - 1 THEN i + 1 ELSE i
  /\ asking' = FALSE
  /\ log' = log
  /\ UNCHANGED <<action, AUTO_YES, choice, cluster_instances, asg, replacement_instances,
                 new_instance, overflow_ids>>
  /\ UNCHANGED <<envVars, pureVars>>

wait_until_instance_status_AbsentAsks ==
  /\ pc \in StatusSites /\ ~asking
  /\ LET instance_id == cluster_instances[i + 1][index("ec2InstanceId")]
         found == Num(instance_id) \in Members
         status == inst[Num(instance_id)].status
     IN IF found /\ status = "ACTIVE"
        THEN /\ IF depth = 0 THEN pc' = NextPc(pc) ELSE pc' = "rb_status_break"
             /\ EnterCounters
             /\ i' = IF depth = 0 /\ i < N - 1 THEN i + 1 ELSE i
             /\ asking' = FALSE
             /\ Logged(Event("active", {Num(instance_id)}, depth))
        ELSE /\ wFailed < MaxRetries
             /\ wFailed' = wFailed + 1
             /\ asking' = TRUE
             /\ UNCHANGED <<pc, wGates, depth, log, i>>
  /\ UNCHANGED <<action, AUTO_YES, choice, cluster_instances, asg, replacement_instances,
                 new_instance, overflow_ids>>
  /\ UNCHANGED <<envVars, pureVars>>

\* lines 124-138: one check for status ACTIVE of the instance just rebooted.
\* A match returns to the caller of this frame: the workflow when depth = 0,
\* otherwise the enclosing frame, which resumes after its recursive call.
wait_until_instance_status ==
  /\ pc \in StatusSites /\ ~asking
  /\ LET instance_id == cluster_instances[i + 1][index("ec2InstanceId")]
         found == Num(instance_id) \in Members
         status == inst[Num(instance_id)].status
     IN IF found /\ status = "ACTIVE"
        THEN /\ IF depth = 0 THEN pc' = NextPc(pc) ELSE pc' = "rb_status_break"
             /\ EnterCounters
             /\ i' = IF depth = 0 /\ i < N - 1 THEN i + 1 ELSE i
             /\ asking' = FALSE
             /\ Logged(Event("active", {Num(instance_id)}, depth))
        ELSE IF found
        THEN /\ wFailed < MaxRetries
             /\ wFailed' = wFailed + 1
             /\ asking' = TRUE
             /\ UNCHANGED <<pc, wGates, depth, log, i>>
        ELSE /\ pc' = "exit_error"
             /\ wFailed' = wFailed + 1
             /\ UNCHANGED <<wGates, depth, log, i, asking>>
  /\ UNCHANGED <<action, AUTO_YES, choice, cluster_instances, asg, replacement_instances,
                 new_instance, overflow_ids>>
  /\ UNCHANGED <<envVars, pureVars>>

\* lines 132-135: the keep-waiting prompt, then the recursive call
wait_until_instance_status_ask ==
  /\ pc \in StatusSites /\ asking
  /\ yes_or_exit(pc)
  /\ wGates' = wGates + 1
  /\ depth' = IF pc' = pc THEN depth + 1 ELSE depth
  /\ asking' = FALSE
  /\ LoggedGate
  /\ UNCHANGED <<action, AUTO_YES, cluster_instances, asg, replacement_instances, i,
                 new_instance, overflow_ids, wFailed>>
  /\ UNCHANGED <<envVars, pureVars>>

\* lines 135-138: a frame whose recursive call returned leaves the loop by
\* `break` and runs the statements after it: the error report and sys.exit(2)
wait_until_instance_status_break ==
  /\ pc = "rb_status_break"
  /\ pc' = "exit_error"
  /\ UNCHANGED <<action, AUTO_YES, choice, cluster_instances, asg, replacement_instances, i,
                 new_instance, overflow_ids, depth, asking>>
  /\ UNCHANGED <<envVars, histVars, pureVars>>

\* ------------------------------------------------------- the health waits
\* one iteration of a `while not <condition>` loop: leave when the condition
\* holds, otherwise count down and check again
HealthCheck_GivesUp(holds, done) ==
  IF holds
  THEN /\ Goto(NextPc(pc))
       /\ Logged(Event(done, {Target(pc)}, 0))
  ELSE /\ pc' = "exit_error"
       /\ wFailed' = wFailed + 1
       /\ UNCHANGED <<wGates, depth, log>>

HealthCheck(holds, done) ==
  IF holds
  THEN /\ Goto(NextPc(pc))
       /\ Logged(Event(done, {Target(pc)}, 0))
  ELSE /\ wFailed < MaxRetries
       /\ wFailed' = wFailed + 1
       /\ UNCHANGED <<pc, wGates, depth, log>>

\* lines 177-184; describe_instance_status lists no status for an instance
\* EC2 no longer runs, and [0] then raises
wait_until_instance_ec2_ok ==
  /\ pc \in Ec2OkSites
  /\ IF Target(pc) \notin Running
     THEN Crash /\ log' = log
     ELSE HealthCheck(inst[Target(pc)].ec2ok, "ok")
  /\ UNCHANGED <<action, AUTO_YES, choice, cluster_instances, asg, replacement_instances, i,
                 new_instance, overflow_ids, asking>>
  /\ UNCHANGED <<envVars, pureVars>>

\* lines 187-194 (and line 270: do_cluster_replace records the new instance
\* once it is connected)
wait_until_instance_ecs_connected ==
  /\ pc \in ConnectedSites
  /\ IF Target(pc) \notin Members
     THEN Crash /\ log' = log
     ELSE HealthCheck(inst[Target(pc)].agentConnected, "connected")
  /\ replacement_instances' =
       IF pc = "rp_connected" /\ pc' # pc /\ pc' # "crashed"
       THEN Append(replacement_instances, new_instance)
       ELSE replacement_instances
  /\ UNCHANGED <<action, AUTO_YES, choice, cluster_instances, asg, i,
                 new_instance, overflow_ids, asking>>
  /\ UNCHANGED <<envVars, pureVars>>

\* lines 163-166: update_container_instances_state(status='DRAINING')
wait_until_instance_drained_mark ==
  /\ pc \in DrainSetSites
  /\ IF Target(pc) \notin Members
     THEN Crash /\ UNCHANGED <<inst, activating, log>>
     ELSE /\ inst' = [inst EXCEPT ![Target(pc)].status = "DRAINING"]
          /\ activating' = activating \ {Target(pc)}
          /\ Logged(Event("drain", {Target(pc)}, 0))
          /\ Goto(NextPc(pc))
  /\ UNCHANGED <<action, AUTO_YES, choice, cluster_instances, asg, replacement_instances, i,
                 new_instance, overflow_ids, asking>>
  /\ UNCHANGED <<groups, clusterArns, external, pureVars>>

\* lines 168-174: list_tasks until no task runs
wait_until_instance_drained ==
  /\ pc \in DrainChkSites
  /\ IF Target(pc) \notin Members
     THEN Crash /\ log' = log
     ELSE HealthCheck(inst[Target(pc)].running = 0, "drained")
  /\ UNCHANGED <<action, AUTO_YES, choice, cluster_instances, asg, replacement_instances, i,
                 new_instance, overflow_ids, asking>>
  /\ UNCHANGED <<envVars, pureVars>>


\* -------------------------------------------------------- do_cluster_replace
replace_get_new_instance_Skips ==
  /\ pc = "rp_get_new"
  /\ \E snapshot \in get_cluster_instances :
       /\ new_instance' = get_new_instance(cluster_instances, replacement_instances, snapshot)
       /\ IF new_instance' = None
          THEN Goto("rp_gate_drain") /\ log' = log
          ELSE Goto(NextPc(pc)) /\ Logged(Event("new", {Num(new_instance'[1])}, 0))
  /\ UNCHANGED <<action, AUTO_YES, choice, cluster_instances, asg, replacement_instances, i,
                 overflow_ids, asking>>
  /\ UNCHANGED <<envVars, pureVars>>

\* lines 262-266: identify the new instance; None is subscripted unguarded
replace_get_new_instance ==
  /\ pc = "rp_get_new"
  /\ \E snapshot \in get_cluster_instances :
       /\ new_instance' = get_new_instance(cluster_instances, replacement_instances, snapshot)
       /\ IF new_instance' = None
          THEN Crash /\ log' = log
          ELSE Goto(NextPc(pc)) /\ Logged(Event("new", {Num(new_instance'[1])}, 0))
  /\ UNCHANGED <<action, AUTO_YES, choice, cluster_instances, asg, replacement_instances, i,
                 overflow_ids, asking>>
  /\ UNCHANGED <<envVars, pureVars>>

replace_terminate_AlsoLast ==
  /\ pc = "rp_after_drain"
  /\ IF Target(pc) \notin Running
     THEN Crash /\ UNCHANGED <<inst, log, i>>
     ELSE /\ inst' = [inst EXCEPT ![Target(pc)].life = "lingering"]
          /\ Logged(Event("terminate", {Target(pc)}, 0))
          /\ i' = IF i < N - 1 THEN i + 1 ELSE i
          /\ Goto(NextPc(pc))
  /\ UNCHANGED <<action, AUTO_YES, choice, cluster_instances, asg, replacement_instances,
                 new_instance, overflow_ids, asking>>
  /\ UNCHANGED <<groups, clusterArns, activating, external, pureVars>>

\* lines 281-286: terminate every original but the last
replace_terminate ==
  /\ pc = "rp_after_drain"
  /\ IF i < N - 1
     THEN IF Target(pc) \notin Running
          THEN Crash /\ UNCHANGED <<inst, log, i>>
          ELSE /\ inst' = [inst EXCEPT ![Target(pc)].life = "lingering"]
               /\ Logged(Event("terminate", {Target(pc)}, 0))
               /\ i' = i + 1
               /\ Goto(NextPc(pc))
     ELSE Goto(NextPc(pc)) /\ UNCHANGED <<inst, log, i>>
  /\ UNCHANGED <<action, AUTO_YES, choice, cluster_instances, asg, replacement_instances,
                 new_instance, overflow_ids, asking>>
  /\ UNCHANGED <<groups, clusterArns, activating, external, pureVars>>

\* ---------------------------------- set_scalein_protection_for_instances
\* the instances each call names: the replacements in REPLACE (lines 287,
\* 291), the originals in REBOOT (lines 352, 356)
ProtectionIds_AlwaysReplacements(site) == ReplacementNums

ProtectionIds(site) ==
  IF site \in {"rp_protect", "rp_unprotect"} THEN ReplacementNums ELSE OriginalNums

Protection_NeverCleared(site) == TRUE

Protection(site) == site \in {"rp_protect", "rb_protect"}

set_scalein_protection_for_instances(g, instance_ids, protection) ==
  inst' = [k \in Ids |->
             IF k \in instance_ids THEN [inst[k] EXCEPT !.protected = protection] ELSE inst[k]]

\* set_instance_protection rejects an instance that is not in the group
SetProtection ==
  /\ pc \in ProtectSites
  /\ IF ~(ProtectionIds(pc) \subseteq AsgMembers(asg))
     THEN Crash /\ UNCHANGED <<inst, log>>
     ELSE /\ set_scalein_protection_for_instances(asg, ProtectionIds(pc), Protection(pc))
          /\ Logged(Event(IF Protection(pc) THEN "protect" ELSE "unprotect",
                          ProtectionIds(pc), 0))
          /\ Goto(NextPc(pc))
  /\ UNCHANGED <<action, AUTO_YES, choice, cluster_instances, asg, replacement_instances, i,
                 new_instance, overflow_ids, asking>>
  /\ UNCHANGED <<groups, clusterArns, activating, external, pureVars>>

\* --------------------------------------------------------- do_cluster_reboot
\* lines 322, 327: reboot_instances
reboot_instances ==
  /\ pc \in RebootSites
  /\ IF Target(pc) \notin Running
     THEN Crash /\ UNCHANGED <<inst, log>>
     ELSE /\ inst' = [inst EXCEPT ![Target(pc)].ec2ok = FALSE,
                                  ![Target(pc)].agentConnected = FALSE]
          /\ Logged(Event("reboot", {Target(pc)}, 0))
          /\ Goto(NextPc(pc))
  /\ UNCHANGED <<action, AUTO_YES, choice, cluster_instances, asg, replacement_instances, i,
                 new_instance, overflow_ids, asking>>
  /\ UNCHANGED <<groups, clusterArns, activating, external, pureVars>>

\* lines 332-335: update_container_instances_state(status='ACTIVE'); the new
\* status shows in a later describe
reboot_activate ==
  /\ pc = "rb_activate"
  /\ IF Target(pc) \notin Members
     THEN Crash /\ UNCHANGED <<activating, log>>
     ELSE /\ activating' = activating \cup {Target(pc)}
          /\ Logged(Event("activate", {Target(pc)}, 0))
          /\ Goto(NextPc(pc))
  /\ UNCHANGED <<action, AUTO_YES, choice, cluster_instances, asg, replacement_instances, i,
                 new_instance, overflow_ids, asking>>
  /\ UNCHANGED <<inst, groups, clusterArns, external, pureVars>>

reboot_overflow_Halts ==
  /\ pc = "rb_overflow"
  /\ \E snapshot \in get_cluster_instances :
       /\ overflow_ids' = get_overflow_instance_ids(cluster_instances, snapshot)
       /\ IF Len(overflow_ids') # 1 THEN pc' = "exit_error" /\ EnterCounters
          ELSE Goto(NextPc(pc))
  /\ Logged(Event("overflow", {Num(overflow_ids'[k].ec2) : k \in 1 .. Len(overflow_ids')},
                  Len(overflow_ids')))
  /\ UNCHANGED <<action, AUTO_YES, choice, cluster_instances, asg, replacement_instances, i,
                 new_instance, asking>>
  /\ UNCHANGED <<envVars, pureVars>>

\* lines 343-349: the overflow instances; a count other than one is only
\* reported, and overflow_ids[0] raises when there is none
reboot_overflow ==
  /\ pc = "rb_overflow"
  /\ \E snapshot \in get_cluster_instances :
       /\ overflow_ids' = get_overflow_instance_ids(cluster_instances, snapshot)
       /\ IF Len(overflow_ids') = 0 THEN Crash ELSE Goto(NextPc(pc))
  /\ Logged(Event("overflow", {Num(overflow_ids'[k].ec2) : k \in 1 .. Len(overflow_ids')},
                  Len(overflow_ids')))
  /\ UNCHANGED <<action, AUTO_YES, choice, cluster_instances, asg, replacement_instances, i,
                 new_instance, asking>>
  /\ UNCHANGED <<envVars, pureVars>>

\* ------------------------------------------------------------ environment
FreeIds == {k \in Ids : inst[k].life = "none"}

\* the group launches an instance while it runs fewer than it desires
EnvLaunch ==
  /\ \E g \in Groups :
       /\ Cardinality(AsgMembers(g)) < groups[g].DesiredCapacity
       /\ FreeIds # {}
       /\ LET k == CHOOSE f \in FreeIds : \A o \in FreeIds : f <= o IN
          inst' = [inst EXCEPT ![k] = [NoInstance EXCEPT !.life = "pending", !.group = g]]
  /\ UNCHANGED <<progVars, groups, clusterArns, activating, external, histVars, pureVars>>

\* the group removes an unprotected instance while it runs more than it
\* desires; the scheduler keeps listing the instance for a while
EnvScaleIn ==
  /\ \E g \in Groups, k \in Ids :
       /\ Cardinality(AsgMembers(g)) > groups[g].DesiredCapacity
       /\ k \in AsgMembers(g) /\ ~inst[k].protected
       /\ inst' = [inst EXCEPT ![k].life =
                     IF inst[k].life = "registered" THEN "lingering" ELSE "gone"]
  /\ UNCHANGED <<progVars, groups, clusterArns, activating, external, histVars, pureVars>>

\* a launched instance joins the cluster
EnvRegister ==
  /\ \E k \in Ids :
       /\ inst[k].life = "pending"
       /\ inst' = [inst EXCEPT ![k].life = "registered"]
  /\ UNCHANGED <<progVars, groups, clusterArns, activating, external, histVars, pureVars>>

\* a terminated instance leaves the scheduler's list
EnvDeregister ==
  /\ \E k \in Ids :
       /\ inst[k].life = "lingering"
       /\ inst' = [inst EXCEPT ![k].life = "gone"]
  /\ UNCHANGED <<progVars, groups, clusterArns, activating, external, histVars, pureVars>>

\* EC2 status checks pass
EnvOk ==
  /\ \E k \in Ids :
       /\ inst[k].life \in {"registered", "deregistered"} /\ ~inst[k].ec2ok
       /\ inst' = [inst EXCEPT ![k].ec2ok = TRUE]
  /\ UNCHANGED <<progVars, groups, clusterArns, activating, external, histVars, pureVars>>

\* the ECS agent connects
EnvConnect ==
  /\ \E k \in Ids :
       /\ inst[k].life = "registered" /\ inst[k].ec2ok /\ ~inst[k].agentConnected
       /\ inst' = [inst EXCEPT ![k].agentConnected = TRUE]
  /\ UNCHANGED <<progVars, groups, clusterArns, activating, external, histVars, pureVars>>

\* a task of a draining instance stops
EnvTaskStops ==
  /\ \E k \in Ids :
       /\ inst[k].life = "registered" /\ inst[k].status = "DRAINING" /\ inst[k].running > 0
       /\ inst' = [inst EXCEPT ![k].running = inst[k].running - 1]
  /\ UNCHANGED <<progVars, groups, clusterArns, activating, external, histVars, pureVars>>

\* an accepted ACTIVE update becomes visible
EnvActivate ==
  /\ \E k \in activating :
       /\ inst' = [inst EXCEPT ![k].status = "ACTIVE"]
       /\ activating' = activating \ {k}
  /\ UNCHANGED <<progVars, groups, clusterArns, external, histVars, pureVars>>

\* a container instance is deregistered from the cluster outside the run (at
\* most once, during a session); EC2 and the group keep the instance
ExternalLoss ==
  /\ ~external /\ asg # 0 /\ pc \notin EndSites
  /\ \E k \in Ids :
       /\ inst[k].life = "registered"
       /\ inst' = [inst EXCEPT ![k].life = "deregistered"]
  /\ external' = TRUE
  /\ UNCHANGED <<progVars, groups, clusterArns, activating, histVars, pureVars>>

\* a container instance that is not of the group registers with the cluster
\* outside the run (in place of the loss above)
ExternalJoin ==
  /\ ~external /\ asg # 0 /\ pc \notin EndSites
  /\ FreeIds # {}
  /\ LET k == CHOOSE f \in FreeIds : \A o \in FreeIds : f <= o IN
     inst' = [inst EXCEPT ![k] = [NoInstance EXCEPT !.life = "registered", !.ec2ok = TRUE,
                                                    !.agentConnected = TRUE]]
  /\ external' = TRUE
  /\ UNCHANGED <<progVars, groups, clusterArns, activating, histVars, pureVars>>

\* ------------------------------------------------------------------- Spec
Next ==
  \/ setup_for_roll_session
  \/ setup_for_roll_resolve
  \/ Gate
  \/ Bump
  \/ wait_until_instance_count
  \/ wait_until_instance_count_ask
  \/ wait_until_instance_status
  \/ wait_until_instance_status_ask
  \/ wait_until_instance_status_break
  \/ wait_until_instance_ec2_ok
  \/ wait_until_instance_ecs_connected
  \/ wait_until_instance_drained_mark
  \/ wait_until_instance_drained
  \/ replace_get_new_instance
  \/ replace_terminate
  \/ SetProtection
  \/ reboot_instances
  \/ reboot_activate
  \/ reboot_overflow
  \/ EnvLaunch
  \/ EnvScaleIn
  \/ EnvRegister
  \/ EnvDeregister
  \/ EnvOk
  \/ EnvConnect
  \/ EnvTaskStops
  \/ EnvActivate

\* the run under the design's assumption: nothing else changes the cluster
Spec == Init /\ [][Next]_vars

\* the run with one instance lost outside it
NextExt == Next \/ ExternalLoss
SpecExt == Init /\ [][NextExt]_vars

\* the run with one external change of the cluster, a loss or a join
NextAnomaly == NextExt \/ ExternalJoin
SpecAnomaly == Init /\ [][NextAnomaly]_vars

\* the statements of the script, which runs on as long as it has not ended
ScriptStep ==
  \/ setup_for_roll_session
  \/ setup_for_roll_resolve
  \/ Gate
  \/ Bump
  \/ wait_until_instance_count
  \/ wait_until_instance_count_ask
  \/ wait_until_instance_status
  \/ wait_until_instance_status_ask
  \/ wait_until_instance_status_break
  \/ wait_until_instance_ec2_ok
  \/ wait_until_instance_ecs_connected
  \/ wait_until_instance_drained_mark
  \/ wait_until_instance_drained
  \/ replace_get_new_instance
  \/ replace_terminate
  \/ SetProtection
  \/ reboot_instances
  \/ reboot_activate
  \/ reboot_overflow

\* the script keeps running, and the control planes do what is pending:
\* every awaited condition comes true at some time and then stays true
Fairness ==
  /\ WF_vars(ScriptStep)
  /\ WF_vars(EnvLaunch) /\ WF_vars(EnvScaleIn)
  /\ WF_vars(EnvRegister) /\ WF_vars(EnvDeregister)
  /\ WF_vars(EnvOk) /\ WF_vars(EnvConnect)
  /\ WF_vars(EnvTaskStops) /\ WF_vars(EnvActivate)

\* the run without external mutation, in a cluster that converges
SpecFair == Init /\ [][Next]_vars /\ Fairness


\* ------------------------------------------------------ the pure helpers
\* get_overflow_instance_ids and get_new_instance applied to snapshots drawn
\* from a small universe in which EC2 ids and ARNs pair freely
PureNums == {1, 2}
PureRows == {<<Ec2Id(a), Arn(b), "ACTIVE", 0, 0>> : a \in PureNums, b \in PureNums}
SnapshotsUpTo(n) == UNION {[1 .. m -> PureRows] : m \in 0 .. n}

PureInit ==
  /\ pc = "pure"
  /\ action = "replace" /\ AUTO_YES = TRUE /\ choice = ""
  /\ cluster_instances = <<>> /\ asg = 0 /\ replacement_instances = <<>>
  /\ i = 0 /\ new_instance = None /\ overflow_ids = <<>>
  /\ depth = 0 /\ asking = FALSE
  /\ inst = [k \in Ids |-> NoInstance]
  /\ groups = [g \in Groups |-> InitialGroup(0)]
  /\ clusterArns = {} /\ activating = {} /\ external = FALSE
  /\ wFailed = 0 /\ wGates = 0 /\ log = <<>>
  /\ pOriginal \in SnapshotsUpTo(MaxLen)
  /\ pCurrent \in SnapshotsUpTo(MaxLen)
  /\ pReplacement \in SnapshotsUpTo(1)
  /\ pResult = <<>> /\ pCalled = "none"

CallOverflow ==
  /\ pc = "pure"
  /\ pResult' = get_overflow_instance_ids(pOriginal, pCurrent)
  /\ pCalled' = "overflow"
  /\ UNCHANGED <<progVars, envVars, histVars, pOriginal, pReplacement, pCurrent>>

CallGetNew ==
  /\ pc = "pure"
  /\ pResult' = get_new_instance(pOriginal, pReplacement, pCurrent)
  /\ pCalled' = "new"
  /\ UNCHANGED <<progVars, envVars, histVars, pOriginal, pReplacement, pCurrent>>

PureNext == CallOverflow \/ CallGetNew
PureSpec == PureInit /\ [][PureNext]_vars


\* ================================================================ claims
Last(s) == s[Len(s)]
IsBump(e) == e.op = "bump"
IsProtect(e) == e.op = "protect"
\* the sizes bump_autoscaling_group read before the run's first update
FirstRead == SelectSeq(log, IsBump)[1].read
Registered == {k \in Ids : inst[k].life = "registered"}
\* registered instances on which the scheduler places tasks
Capacity == {k \in Registered : inst[k].status # "DRAINING"}
SnapshotPairs == Range(IdPairs(current_instances))
OriginalPairs == Range(IdPairs(cluster_instances))

\* C1: a REPLACE run that completes normally (N >= 1 originals) ends with a
\* cluster of N instances, the group's desired capacity back at the value read
\* before the first bump, and exactly N recorded replacements, pairwise
\* distinct and none of them an original.
C1_ReplaceCompletes ==
  (pc = "done" /\ action = "replace") =>
    /\ N >= 1
    /\ Len(current_instances) = N
    /\ groups[asg].DesiredCapacity = FirstRead.DesiredCapacity
    /\ Len(replacement_instances) = N
    /\ \A j, k \in 1 .. Len(replacement_instances) :
         j # k => /\ replacement_instances[j] # replacement_instances[k]
                  /\ replacement_instances[j][1] # replacement_instances[k][1]
    /\ \A j \in 1 .. Len(replacement_instances) :
         /\ replacement_instances[j] \notin OriginalPairs
         /\ Num(replacement_instances[j][1]) \notin OriginalNums

C1_Witness ==
  /\ pc = "done" /\ action = "replace" /\ N = MaxN
  /\ Len(replacement_instances) = MaxN

\* C2: a REBOOT run that completes normally ends with a snapshot whose
\* identifiers are exactly the original snapshot's, every instance ACTIVE,
\* N instances, and the group's min/max/desired as they were before the run.
C2_RebootCompletes ==
  (pc = "done" /\ action = "reboot") =>
    /\ SnapshotPairs = OriginalPairs
    /\ \A j \in 1 .. Len(current_instances) : current_instances[j][index("status")] = "ACTIVE"
    /\ Len(current_instances) = N
    /\ groups[asg] = FirstRead

C2_Witness ==
  /\ pc = "done" /\ action = "reboot" /\ N = MaxN
  /\ \E j \in 1 .. Len(log) : log[j].op = "reboot"

\* C3: after setup the cluster never has fewer than N registered instances
\* that are not DRAINING, and an instance is set DRAINING only while N + 1
\* instances are registered and the other N are not DRAINING.
C3_CapacityKept ==
  /\ [](asg # 0 => Cardinality(Capacity) >= N)
  /\ [][\A k \in Ids :
          (inst[k].status # "DRAINING" /\ inst'[k].status = "DRAINING") =>
             /\ k \in Registered
             /\ Cardinality(Registered) = N + 1
             /\ \A o \in Registered \ {k} : inst[o].status # "DRAINING"]_vars

C3_Witness ==
  /\ asg # 0 /\ N = MaxN
  /\ Cardinality(Registered) = N + 1
  /\ Cardinality(Capacity) = N
  /\ \E k \in Registered : inst[k].status = "DRAINING" /\ inst[k].running > 0

\* C4: scale-in protection is set once per run, right before the capacity
\* decrease, on exactly the recorded replacements (REPLACE) or the originals
\* (REBOOT); it is cleared for the same instances only after the wait for N
\* instances returned, and a run that completes leaves nothing protected.
C4_Protection ==
  /\ Len(SelectSeq(log, IsProtect)) <= 1
  /\ \A j \in 1 .. Len(log) :
       /\ log[j].op = "protect" =>
            /\ log[j].ids = IF action = "replace" THEN ReplacementNums ELSE OriginalNums
            /\ action = "replace" => Len(replacement_instances) = N
            /\ j < Len(log) => log[j + 1].op = "bump" /\ log[j + 1].n = -1
       /\ (log[j].op = "bump" /\ log[j].n = -1) => j > 1 /\ log[j - 1].op = "protect"
       /\ log[j].op = "unprotect" =>
            /\ j > 1 /\ log[j - 1].op = "count" /\ log[j - 1].n = N
            /\ \E q \in 1 .. j - 1 : log[q].op = "protect" /\ log[q].ids = log[j].ids
  /\ \A k \in Ids :
       inst[k].protected => \E j \in 1 .. Len(log) : log[j].op = "protect" /\ k \in log[j].ids
  /\ pc = "done" =>
       /\ Len(SelectSeq(log, IsProtect)) = 1
       /\ Last(log).op = "unprotect"
       /\ \A k \in Ids : ~inst[k].protected

C4_Witness ==
  /\ pc = "done" /\ Last(log).op = "unprotect"
  /\ \E j \in 1 .. Len(log) : log[j].op = "protect" /\ Cardinality(log[j].ids) = MaxN


\* C5: a non-affirmative answer at any yes_or_exit prompt (assume-yes not
\* set) ends the process at once with exit code 2; the group's sizes, the
\* protection flags and the drain statuses are as they were at the prompt,
\* and nothing is called afterwards.
C5_AbortLeavesState ==
  /\ [](choice = "n" => pc = "exit_abort" /\ ExitCode = 2 /\ ~AUTO_YES)
  /\ [](pc = "exit_abort" => choice = "n")
  /\ [][choice' = "n" /\ choice # "n" =>
          /\ groups' = groups /\ inst' = inst /\ activating' = activating
          /\ \A j \in 1 .. Len(log') : j > Len(log) => log'[j].op = "gate"]_vars
  /\ [][pc = "exit_abort" =>
          /\ pc' = pc /\ log' = log /\ groups' = groups
          /\ \A k \in Ids :
               /\ inst'[k].protected = inst[k].protected
               /\ inst'[k].status = "DRAINING" => inst[k].status = "DRAINING"]_vars

C5_Witness ==
  /\ pc = "exit_abort" /\ choice = "n"
  /\ wGates >= 1
  /\ groups[asg].DesiredCapacity = N + 1
  /\ \E k \in Ids : inst[k].status = "DRAINING"

IsCall(e) == e.op \in {"gate", "bump", "drain", "terminate", "reboot"}
Calls == SelectSeq(log, IsCall)

\* C6 as claimed: every capacity update, drain, terminate and reboot call is
\* preceded by a yes_or_exit call made after the previous such call.
C6_GateBeforeEveryMutation ==
  \A j \in 1 .. Len(Calls) :
    Calls[j].op # "gate" => j > 1 /\ Calls[j - 1].op = "gate"

\* C6 as amended: every capacity increase and every drain is preceded by a
\* yes_or_exit call made after the previous mutating call; the terminate, the
\* two reboots and the capacity decrease follow the drain of their step with
\* no yes_or_exit call of their own.
C6_GatePerStep ==
  \A j \in 1 .. Len(Calls) :
    /\ (Calls[j].op = "drain" \/ (Calls[j].op = "bump" /\ Calls[j].n = 1)) =>
         j > 1 /\ Calls[j - 1].op = "gate"
    /\ Calls[j].op = "terminate" =>
         j > 1 /\ Calls[j - 1].op = "drain" /\ Calls[j - 1].ids = Calls[j].ids
    /\ (Calls[j].op = "bump" /\ Calls[j].n = -1) => j > 1 /\ Calls[j - 1].op = "drain"
    /\ Calls[j].op = "reboot" =>
         /\ j > 1
         /\ \/ Calls[j - 1].op = "drain" /\ Calls[j - 1].ids = Calls[j].ids
            \/ /\ Calls[j - 1].op = "reboot" /\ Calls[j - 1].ids = Calls[j].ids
               /\ j > 2 /\ Calls[j - 2].op = "drain"

C6_Witness ==
  /\ Len(Calls) >= 3
  /\ Calls[Len(Calls)].op = "reboot"
  /\ Calls[Len(Calls) - 1].op = "reboot"
  /\ Calls[Len(Calls) - 2].op = "drain"

\* C7 as claimed: when a status wait has been through at least one failed
\* check answered yes and a later check observes ACTIVE, the wait returns and
\* REBOOT goes on with its next step.
C7_StatusWaitReturnsAfterRetry ==
  (log # <<>> /\ Last(log).op = "active" /\ Last(log).n > 0) =>
     pc \in {"rb_gate_perform", "rb_gate_finish"}

Pending == IF asking THEN 1 ELSE 0

\* C8 as claimed: in an expectation wait every check that finds the condition
\* false is followed by exactly one yes_or_exit call before the wait retries
\* or the process ends.
C8_OneGatePerFailedCheck ==
  pc \in ExpectSites \cup {"rb_status_break", "exit_abort", "exit_error"} =>
    wFailed = wGates + Pending

C8_Step ==
  pc \in ExpectSites =>
          /\ (wFailed' = wFailed + 1 /\ pc' = pc) => ~asking /\ asking' /\ wGates' = wGates
          /\ (wGates' # wGates /\ pc' \in {pc, "exit_abort", "exit_error"}) =>
               asking /\ ~asking' /\ wGates' = wGates + 1 /\ pc' # "exit_error"
          /\ pc' \in {NextPc(pc), "rb_status_break"} => ~asking /\ wGates = wFailed
          /\ pc' = "exit_error" =>
               /\ pc \in StatusSites /\ ~asking
               /\ Num(cluster_instances[i + 1][index("ec2InstanceId")]) \notin Members
               /\ wGates' = wGates /\ wFailed' = wFailed + 1

\* C8 as amended: a check that finds the cluster size different, or finds the
\* instance with another status, is followed by exactly one yes_or_exit call
\* before the retry or the abort; a check that finds the condition true makes
\* none; a status check that does not find the instance makes none and exits
\* 2; a wait that returns after k failed checks has made exactly k calls.
C8_GatePerMismatch ==
  /\ [](pc \in ExpectSites => wFailed = wGates + Pending)
  /\ [][C8_Step]_vars

C8_Witness ==
  /\ pc \in CountSites /\ ~asking
  /\ wFailed = MaxRetries /\ wGates = MaxRetries
  /\ Len(current_instances) = ExpectedCount(pc)

HealthCond(site) ==
  CASE site \in Ec2OkSites -> inst[Target(site)].ec2ok
    [] site \in ConnectedSites -> inst[Target(site)].agentConnected
    [] OTHER -> inst[Target(site)].running = 0

C9_Step ==
  pc \in HealthSites =>
    /\ pc' # pc => HealthCond(pc) /\ pc' = NextPc(pc)
    /\ (wFailed' # wFailed /\ pc' = pc) => ~HealthCond(pc) /\ wFailed' = wFailed + 1
    /\ pc' = pc => wGates' = wGates
    /\ choice' = choice /\ asking' = asking /\ ~asking
    /\ log' # log => Last(log').op \in {"ok", "connected", "drained"}

\* C9: a health wait (drained, EC2 status ok, agent connected) is left only
\* when its condition holds, at the first check that finds it so, to the next
\* statement; a check that finds it false is followed by another check; no
\* yes_or_exit call is made and the process does not exit.
C9_HealthWaits == [][C9_Step]_vars

C9_Witness ==
  /\ pc \in HealthSites
  /\ wFailed = MaxRetries /\ wGates = 0
  /\ HealthCond(pc)

NotOriginalPair(row) == <<row[1], row[2]>> \notin Range(IdPairs(pOriginal))
NotOriginalEc2(row) ==
  \A k \in 1 .. Len(pOriginal) :
    pOriginal[k][index("ec2InstanceId")] # row[index("ec2InstanceId")]
AsIds(rows) ==
  [k \in 1 .. Len(rows) |->
     [ec2 |-> rows[k][index("ec2InstanceId")], ecs |-> rows[k][index("containerInstanceArn")]]]
\* a row of C shares its EC2 id with a row of O whose ARN is another
SharesEc2Only(row) == NotOriginalPair(row) /\ ~NotOriginalEc2(row)

\* C10 as claimed: the overflow of O and C is the rows of C whose (EC2 id,
\* ARN) pair is not the pair of a row of O.
C10_OverflowByPair ==
  pCalled = "overflow" => pResult = AsIds(SelectSeq(pCurrent, NotOriginalPair))

C10_Result ==
  pCalled = "overflow" =>
    /\ pResult = AsIds(SelectSeq(pCurrent, NotOriginalEc2))
    /\ \A k \in 1 .. Len(pCurrent) :
         SharesEc2Only(pCurrent[k]) =>
           \A j \in 1 .. Len(pResult) : pResult[j].ec2 # pCurrent[k][index("ec2InstanceId")]
    /\ pCurrent = pOriginal => pResult = <<>>

C10_SecondCall ==
  (pCalled = "overflow" /\ pCalled' = "overflow") =>
    pResult' = pResult /\ pOriginal' = pOriginal /\ pCurrent' = pCurrent

\* C10 as amended: the overflow of O and C is the rows of C, in C's order,
\* whose EC2 id is not the EC2 id of a row of O (a row that shares its EC2 id
\* with a row of O is not reported, whatever its ARN); it is empty when
\* C = O, and a second call on the same inputs gives the same result.
C10_OverflowByEc2Id == []C10_Result /\ [][C10_SecondCall]_vars

C10_Witness ==
  /\ pCalled = "overflow"
  /\ \E k \in 1 .. Len(pCurrent) : SharesEc2Only(pCurrent[k])
  /\ Len(pResult) = 1 /\ Len(pCurrent) = MaxLen

\* a pair of the current snapshot that neither the originals nor the
\* replacements hold
IsNewPair(pair) ==
  pair \notin Range(IdPairs(pOriginal)) /\ pair \notin Range(IdPairs(pReplacement))
NewPairs == SelectSeq(IdPairs(pCurrent), IsNewPair)

\* C11: get_new_instance returns the first pair of current, in current's
\* order, that is in neither original nor replacement, and returns None
\* exactly when current holds no such pair.
C11_FirstNewPair ==
  pCalled = "new" =>
    /\ (pResult = None) <=> (NewPairs = <<>>)
    /\ pResult # None =>
         /\ pResult = NewPairs[1]
         /\ pResult \in Range(IdPairs(pCurrent))
         /\ pResult \notin Range(IdPairs(pOriginal))
         /\ pResult \notin Range(IdPairs(pReplacement))

C11_Witness ==
  /\ pCalled = "new" /\ pResult # None
  /\ Len(pCurrent) = MaxLen /\ Len(pReplacement) = 1
  /\ IdPairs(pCurrent)[1] \in Range(IdPairs(pReplacement))
  /\ pResult = IdPairs(pCurrent)[MaxLen]
  /\ \E k \in 1 .. Len(pOriginal) : pOriginal[k][1] = pResult[1]

IsMutation(e) == e.op \in {"bump", "protect", "unprotect", "drain", "reboot", "terminate"}
\* setup_for_roll ended the run before it resolved a group
SetupEnded == pc \in EndSites /\ asg = 0 /\ choice # "n"
SetupFails ==
  ~cluster_exists \/ Cardinality(get_autoscaling_groups(current_instances)) # 1

\* C12: when the cluster does not exist, or its instances name no group or
\* more than one, the run ends in setup with exit code 2 and without any
\* capacity, protection, drain, reboot or terminate call.
C12_SetupFailureExits2 ==
  (SetupEnded /\ SetupFails) =>
    /\ ExitCode = 2
    /\ SelectSeq(log, IsMutation) = <<>>

IsOverflow(e) == e.op = "overflow"
NotGate(e) == e.op # "gate"
\* the calls and observations logged after the overflow instances were read
AfterOverflow ==
  LET j == CHOOSE k \in 1 .. Len(log) : log[k].op = "overflow"
  IN SelectSeq(SubSeq(log, j + 1, Len(log)), NotGate)
AfterOverflowOps == <<"drain", "drained", "protect", "bump", "count", "unprotect">>

\* C13 as claimed: when REBOOT finds a number of overflow instances other
\* than one, the run goes on to drain an overflow instance.
C13_AnomalyContinues ==
  (log # <<>> /\ Last(log).op = "overflow" /\ Last(log).n # 1) =>
     pc = "rb_overflow_drain_set"

C13_Order ==
  SelectSeq(log, IsOverflow) # <<>> =>
    /\ Len(SelectSeq(log, IsOverflow)) = 1
    /\ Len(overflow_ids) = 0 => pc = "crashed" /\ AfterOverflow = <<>>
    /\ Len(AfterOverflow) <= Len(AfterOverflowOps)
    /\ \A j \in 1 .. Len(AfterOverflow) :
         /\ AfterOverflow[j].op = AfterOverflowOps[j]
         /\ j \in {1, 2} => AfterOverflow[j].ids = {Num(overflow_ids[1].ec2)}
         /\ j \in {3, 6} => AfterOverflow[j].ids = OriginalNums
         /\ j = 4 => AfterOverflow[j].n = -1
         /\ j = 5 => AfterOverflow[j].n = N

C13_Step ==
  pc = "rb_overflow" /\ pc' # pc =>
    /\ Last(log').op = "overflow" /\ Last(log').n = Len(overflow_ids')
    /\ pc' = IF Len(overflow_ids') = 0 THEN "crashed" ELSE "rb_overflow_drain_set"

\* C13 as amended: with two or more overflow instances the run goes on: it
\* drains the first one listed, protects the originals, lowers the capacity
\* by 1, waits for N instances and clears the protection, in that order; with
\* none the run ends by an uncaught exception and makes no further call.
C13_AnomalyHandling == []C13_Order /\ [][C13_Step]_vars

C13_Witness ==
  /\ SelectSeq(log, IsOverflow) # <<>>
  /\ Len(overflow_ids) >= 2
  /\ Len(AfterOverflow) = 4
  /\ groups[asg].DesiredCapacity = N

\* the run makes no call and records nothing in this step
Halted ==
  /\ pc' = pc /\ log' = log /\ groups' = groups
  /\ replacement_instances' = replacement_instances
  /\ \A k \in Ids :
       /\ inst'[k].protected = inst[k].protected
       /\ inst'[k].status = "DRAINING" => inst[k].status = "DRAINING"

C14_Step ==
  /\ (pc = "rp_get_new" /\ pc' # pc /\ new_instance' = None) =>
       /\ pc' = "crashed"
       /\ replacement_instances' = replacement_instances
       /\ log' = log
  /\ (pc = "rp_get_new" /\ pc' # pc /\ new_instance' # None) =>
       /\ pc' = "rp_ec2_ok"
       /\ new_instance' \in SnapshotPairs \ OriginalPairs
       /\ new_instance' \notin Range(replacement_instances)
  /\ pc = "crashed" => Halted

\* C14: when get_new_instance finds no new instance after the size wait of a
\* REPLACE iteration, the run stops there: no replacement is recorded for the
\* iteration and no drain, terminate, protection or capacity call follows.
C14_NoNewInstanceIsFatal == [][C14_Step]_vars

C14_Witness ==
  /\ pc = "crashed" /\ action = "replace" /\ new_instance = None
  /\ log # <<>> /\ Last(log).op = "count" /\ Last(log).n = N + 1
  /\ Len(replacement_instances) = 1 /\ i = 1

\* a step of wait_until_instance_status that takes a snapshot and looks for
\* the instance
StatusCheck ==
  pc \in StatusSites /\ ~asking /\ (pc' # pc \/ wFailed' # wFailed)
StatusTargetAbsent == Target("rb_status") \notin Members

C15_Step ==
  /\ (StatusCheck /\ StatusTargetAbsent) =>
       /\ pc' = "exit_error"
       /\ wGates' = wGates /\ choice' = choice /\ ~asking'
       /\ log' = log /\ groups' = groups /\ inst' = inst
  /\ pc = "exit_error" => Halted

\* C15: a check of wait_until_instance_status whose snapshot does not list
\* the instance ends the run with exit code 2, without a yes_or_exit call
\* and without any further call.
C15_AbsentInstanceExits2 ==
  /\ [](pc = "exit_error" => ExitCode = 2)
  /\ [][C15_Step]_vars

C15_Witness ==
  /\ pc = "exit_error" /\ action = "reboot" /\ external
  /\ cluster_instances # <<>> /\ StatusTargetAbsent
  /\ log # <<>> /\ Last(log).op = "activate"
  /\ wGates = 0 /\ wFailed = 1

IsPerInstance(e) ==
  e.op \in {"drain", "drained", "reboot", "ok", "connected", "activate", "active"}
\* what the run did to and saw of instance k, in order
EventsOf(k) ==
  LET About(e) == IsPerInstance(e) /\ e.ids = {k} IN SelectSeq(log, About)
RebootCycle ==
  <<"drain", "drained", "reboot", "ok", "connected", "reboot", "ok", "connected",
    "activate", "active">>
IsReboot(e) == e.op = "reboot"

\* C16: in REBOOT the events of each original instance are, in order: set
\* DRAINING, no running task seen, reboot, status ok seen, agent connected
\* seen, reboot, status ok seen, agent connected seen, set ACTIVE, ACTIVE
\* seen.  A completed run has rebooted each original exactly twice; the
\* overflow instance is never rebooted; no instance is rebooted before its
\* drain was seen complete.
C16_RebootOrder ==
  action = "reboot" =>
    /\ \A k \in OriginalNums :
         /\ Len(EventsOf(k)) <= Len(RebootCycle)
         /\ \A j \in 1 .. Len(EventsOf(k)) : EventsOf(k)[j].op = RebootCycle[j]
         /\ pc = "done" => Len(SelectSeq(EventsOf(k), IsReboot)) = 2
    /\ \A k \in Ids \ OriginalNums : SelectSeq(EventsOf(k), IsReboot) = <<>>
    /\ \A j \in 1 .. Len(log) :
         log[j].op = "reboot" =>
           \E d \in 1 .. j - 1 : log[d].op = "drained" /\ log[d].ids = log[j].ids

C16_Witness ==
  /\ action = "reboot" /\ pc = "done" /\ N = MaxN
  /\ \A k \in OriginalNums : Len(EventsOf(k)) = Len(RebootCycle)
  /\ \E k \in Ids \ OriginalNums : EventsOf(k) # <<>>

IsDrain(e) == e.op = "drain"
IsJoinStep(e) ==
  \/ e.op \in {"new", "ok", "connected", "drain"}
  \/ e.op = "count" /\ e.n = N + 1
\* REPLACE: the size observations, the new instances found and seen healthy,
\* and the drains, in order
JoinSteps == SelectSeq(log, IsJoinStep)
Drains == Len(SelectSeq(log, IsDrain))
Original(m) == Num(cluster_instances[m][index("ec2InstanceId")])
Replacement(m) == Num(replacement_instances[m][1])

\* C17: in REPLACE the m-th original is set DRAINING only after, in the same
\* iteration, N + 1 instances were counted and a new instance (no original,
\* no earlier replacement) was found, seen with status ok and with its agent
\* connected, and recorded; m replacements are recorded when the m-th
\* original is drained.
C17_DrainAfterJoin ==
  (action = "replace" /\ asg # 0) =>
    /\ Drains <= N
    /\ Len(replacement_instances) \in {Drains, Drains + 1}
    /\ pc \in {"rp_drain_chk", "rp_after_drain"} => Len(replacement_instances) = Drains
    /\ Len(JoinSteps) >= 5 * Drains
    /\ \A m \in 1 .. Drains :
         /\ JoinSteps[5 * m - 4].op = "count"
         /\ JoinSteps[5 * m - 3].op = "new" /\ JoinSteps[5 * m - 3].ids = {Replacement(m)}
         /\ JoinSteps[5 * m - 2].op = "ok" /\ JoinSteps[5 * m - 2].ids = {Replacement(m)}
         /\ JoinSteps[5 * m - 1].op = "connected"
         /\ JoinSteps[5 * m - 1].ids = {Replacement(m)}
         /\ JoinSteps[5 * m].op = "drain" /\ JoinSteps[5 * m].ids = {Original(m)}
         /\ Replacement(m) \notin OriginalNums
         /\ replacement_instances[m] \notin OriginalPairs
         /\ \A q \in 1 .. m - 1 : replacement_instances[q] # replacement_instances[m]

C17_Witness ==
  /\ action = "replace" /\ asg # 0 /\ N = MaxN
  /\ pc = "rp_drain_chk" /\ Drains = MaxN
  /\ Len(replacement_instances) = MaxN

IsTerminate(e) == e.op = "terminate"
Terminates == SelectSeq(log, IsTerminate)

C18_Calls ==
  /\ action = "reboot" => Terminates = <<>>
  /\ (action = "replace" /\ asg # 0) =>
       /\ Len(Terminates) <= N - 1
       /\ \A m \in 1 .. Len(Terminates) : Terminates[m].ids = {Original(m)}
       /\ \A j \in 1 .. Len(log) :
            log[j].op = "terminate" =>
              /\ log[j].ids \cap ReplacementNums = {}
              /\ j > 1 /\ log[j - 1].op = "drained" /\ log[j - 1].ids = log[j].ids
       /\ pc = "done" =>
            /\ Len(Terminates) = N - 1
            /\ SnapshotPairs = Range(replacement_instances)
            /\ Original(N) \notin Members

\* the last original stops being a registered instance
C18_LastRemoved ==
  (action = "replace" /\ asg # 0 /\ N >= 1
     /\ inst[Original(N)].life = "registered" /\ inst'[Original(N)].life # "registered") =>
    /\ log' = log
    /\ Len(replacement_instances) = N
    /\ \A r \in ReplacementNums : inst[r].protected
    /\ \E j \in 1 .. Len(log) : log[j].op = "bump" /\ log[j].n = -1

\* C18: REPLACE calls terminate only for the originals 1 .. N-1, each right
\* after its drain was seen complete, never for a replacement; the last
\* original is not terminated by the run but removed by the group after the
\* capacity decrease, with all N replacements protected; a completed run has
\* made N-1 terminate calls and ends with the replacements as the cluster.
\* REBOOT calls terminate never.
C18_TerminateAllButLast == []C18_Calls /\ [][C18_LastRemoved]_vars

C18_Witness ==
  /\ action = "replace" /\ pc = "done" /\ N = MaxN
  /\ Len(Terminates) = MaxN - 1
  /\ inst[Original(N)].life = "gone"

DrainEvents == SelectSeq(log, IsDrain)
\* instances the run has set DRAINING and has not since seen ACTIVE again
\* (REBOOT), or terminated or seen removed (REPLACE)
UnderMaintenance ==
  {k \in Ids :
     \E d \in 1 .. Len(log) :
       /\ log[d].op = "drain" /\ log[d].ids = {k}
       /\ IF action = "reboot"
          THEN \A j \in d + 1 .. Len(log) : ~(log[j].op = "active" /\ log[j].ids = {k})
          ELSE /\ \A j \in d + 1 .. Len(log) : ~(log[j].op = "terminate" /\ log[j].ids = {k})
               /\ inst[k].life = "registered"}

C19_One ==
  asg # 0 =>
    /\ Cardinality(UnderMaintenance) <= 1
    /\ \A m \in 1 .. Len(DrainEvents) : m <= N => DrainEvents[m].ids = {Original(m)}

C19_DrainStep ==
  Len(SelectSeq(log', IsDrain)) > Len(DrainEvents) => UnderMaintenance = {}

\* C19: the originals are processed one at a time in the order of the
\* original snapshot: at most one instance is under maintenance in any
\* state, and an instance is set DRAINING only when none is.
C19_OneAtATime == []C19_One /\ [][C19_DrainStep]_vars

C19_Witness ==
  /\ asg # 0 /\ N = MaxN
  /\ UnderMaintenance = {Original(MaxN)}
  /\ Len(DrainEvents) = MaxN
  /\ inst[Original(MaxN)].status = "DRAINING"
  /\ action = "reboot"

Bumps == SelectSeq(log, IsBump)
\* the group's sizes before the run's first update
OriginalSizes == IF Bumps = <<>> THEN groups[asg] ELSE Bumps[1].read
Raised(sizes) ==
  [MinSize |-> sizes.MinSize + 1, MaxSize |-> sizes.MaxSize + 1,
   DesiredCapacity |-> sizes.DesiredCapacity + 1]

\* C20: with the group's sizes (m, M, D) before the run, the group is at
\* (m, M, D) or at (m+1, M+1, D+1) in every state, so min <= desired <= max;
\* the run makes at most two updates, the first by +1 and the second by -1.
C20_GroupSizes ==
  asg # 0 =>
    /\ groups[asg] \in {OriginalSizes, Raised(OriginalSizes)}
    /\ groups[asg].MinSize <= groups[asg].DesiredCapacity
    /\ groups[asg].DesiredCapacity <= groups[asg].MaxSize
    /\ Len(Bumps) <= 2
    /\ Len(Bumps) >= 1 => Bumps[1].n = 1
    /\ Len(Bumps) = 2 => Bumps[2].n = -1 /\ Bumps[2].read = Raised(OriginalSizes)
    /\ groups[asg] = IF Len(Bumps) = 1 THEN Raised(OriginalSizes) ELSE OriginalSizes

C20_Witness ==
  /\ asg # 0 /\ N = MaxN /\ pc = "done"
  /\ Len(Bumps) = 2
  /\ groups[asg] = OriginalSizes /\ groups[asg].DesiredCapacity = MaxN

\* C21: with --yes, a REBOOT run over N >= 1 originals whose awaited
\* conditions all come true in the end reaches normal completion, however
\* many checks fail before.
C21_RebootTerminates ==
  (action = "reboot" /\ AUTO_YES /\ asg # 0 /\ N >= 1) ~> (pc = "done")

====
